---- MODULE Spec2Model ----
(***************************************************************************)
(* generate_feed.py: scrape the listing page, extract each message's       *)
(* details from its page, build the podcast feed and write podcast.xml.    *)
(*                                                                         *)
(* Text is a sequence of one-character strings, so that the string         *)
(* operations of the program (split, replace, strip, unquote, the date     *)
(* regular expression) are computed the way Python computes them.          *)
(***************************************************************************)
EXTENDS Integers, Sequences, FiniteSets, TLC

VARIABLES
    pc,             \* where main is: "start", "scraped", "loop", "done",
                    \* or "aborted" (an exception left main)
    soup,           \* scrape_messages' soup: what get_soup(BASE_URL) returned
    message_links,  \* main's message_links
    idx,            \* position of the loop in message_links[:20], from 1
    details_list,   \* main's details_list
    feed,           \* the episodes of the feed written to podcast.xml
    writes,         \* how often rss_file has written podcast.xml
    notice,         \* "No messages found to generate feed." was printed
    error,          \* the exception that left main, "" when none
    log,            \* the fetches and file writes so far, in order
    page_in,        \* what get_soup(message_url) returned to the last call
    result          \* how the last call of get_message_details ended

vars == <<pc, soup, message_links, idx, details_list, feed, writes,
          notice, error, log, page_in, result>>

\* ------------------------------------------------------------------ bounds
\* Longest listing page (anchor elements) enumerated over the small href set.
MaxAnchors == 3
\* Length of the long archive listing (more links than main processes).
ArchiveLen == 22
\* Longest audio filename, in vocabulary pieces, given to the extractor.
MaxPieces == 4

\* main processes message_links[:20].
MaxProcessed == 20

\* --------------------------------------------------------- Python strings
Min(S) == CHOOSE x \in S : \A y \in S : x <= y

\* s[i:i+len(p)] == p
IsPrefixAt(s, p, i) ==
    /\ i + Len(p) - 1 <= Len(s)
    /\ \A k \in 1..Len(p) : s[i + k - 1] = p[k]

\* str.find from position `from` (1-based), 0 when absent.
Find(s, p, from) ==
    LET at == {i \in from..(Len(s) - Len(p) + 1) : IsPrefixAt(s, p, i)}
    IN  IF at = {} THEN 0 ELSE Min(at)

\* p in s
Contains(s, p) == Find(s, p, 1) # 0

\* s.startswith(p)
StartsWith(s, p) == IsPrefixAt(s, p, 1)

\* s.split(sep): left to right, non-overlapping
RECURSIVE Split(_, _)
Split(s, sep) ==
    LET i == Find(s, sep, 1)
    IN  IF i = 0 THEN <<s>>
        ELSE <<SubSeq(s, 1, i - 1)>> \o Split(SubSeq(s, i + Len(sep), Len(s)), sep)

\* s.replace(old, new): every non-overlapping occurrence, one pass
RECURSIVE Replace(_, _, _)
Replace(s, old, new) ==
    LET i == Find(s, old, 1)
    IN  IF i = 0 THEN s
        ELSE SubSeq(s, 1, i - 1) \o new
             \o Replace(SubSeq(s, i + Len(old), Len(s)), old, new)

IsSpace(c) == c = " "

\* s.strip()
Strip(s) ==
    LET keep == {i \in 1..Len(s) : ~IsSpace(s[i])}
    IN  IF keep = {} THEN <<>>
        ELSE SubSeq(s, Min(keep), CHOOSE i \in keep : \A j \in keep : j <= i)

\* seq[-1]
Last(seq) == seq[Len(seq)]

DigitChars == <<"0", "1", "2", "3", "4", "5", "6", "7", "8", "9">>
IsDigit(c) == \E n \in 1..10 : DigitChars[n] = c
DigitVal(c) == (CHOOSE n \in 1..10 : DigitChars[n] = c) - 1
IsHex(c) == IsDigit(c) \/ c \in {"A", "B", "C", "D", "E", "F"}

\* The character a %XX escape stands for; "~" stands for every escape the
\* bounded inputs do not use.
PercentChar(h, l) ==
    CASE h = "2" /\ l = "0" -> " "
      [] h = "2" /\ l = "B" -> "+"
      [] h = "2" /\ l = "D" -> "-"
      [] h = "2" /\ l = "E" -> "."
      [] h = "3" /\ l = "F" -> "?"
      [] OTHER -> "~"

\* urllib.parse.unquote: %XX escapes are decoded, '+' is left as it is.
RECURSIVE unquote(_)
unquote(s) ==
    IF s = <<>> THEN <<>>
    ELSE IF s[1] = "%" /\ Len(s) >= 3 /\ IsHex(s[2]) /\ IsHex(s[3])
         THEN <<PercentChar(s[2], s[3])>> \o unquote(SubSeq(s, 4, Len(s)))
         ELSE <<s[1]>> \o unquote(Tail(s))

\* ------------------------------------------------------------- constants
Origin == <<"h","t","t","p","s",":","/","/","w","w","w",".","w","e","s","t",
            "m","i","n","s","t","e","r",".","o","r","g">>
BASE_URL == Origin \o <<"/","m","e","s","s","a","g","e","s","/">>
MARKER == <<"/","m","e","d","i","a","c","a","s","t","/">>
INDEX_URL == Origin \o MARKER
UNKNOWN_TITLE == <<"U","n","k","n","o","w","n"," ","T","i","t","l","e">>
DEFAULT_SPEAKER == <<"W","e","s","t","m","i","n","s","t","e","r"," ",
                     "C","h","a","p","e","l">>
SEPARATOR == <<" ", "-", " ">>
MP3 == <<".", "m", "p", "3">>

\* An attribute of an element: absent, or present with a value.
NoAttr == [has |-> FALSE, val |-> <<>>]
Attr(v) == [has |-> TRUE, val |-> v]

\* urljoin(BASE_URL, href) for an href that starts with '/': a network-path
\* reference keeps its host, an absolute path replaces the base's path.
urljoin(href) ==
    IF StartsWith(href, <<"/", "/">>) THEN <<"h","t","t","p","s",":">> \o href
    ELSE Origin \o href

\* ------------------------------------------------------- scrape_messages
\* The href as normalised by the loop body.
Normalise(href) == IF StartsWith(href, <<"/">>) THEN urljoin(href) ELSE href

\* The test that keeps a normalised href.
Qualifies(href) == Contains(href, MARKER) /\ href # INDEX_URL

Seen_Forgotten(href, seen) == FALSE

\* href in seen_urls
Seen(href, seen) == href \in seen

\* The loop over soup.find_all('a', href=True).
RECURSIVE ScrapeLoop(_, _, _)
ScrapeLoop(anchors, seen, messages) ==
    IF anchors = <<>> THEN messages
    ELSE LET link == Head(anchors)
             href == Normalise(link.val)
         IN  IF link.has /\ Qualifies(href) /\ ~Seen(href, seen)
             THEN ScrapeLoop(Tail(anchors), seen \cup {href},
                             Append(messages, [url |-> href]))
             ELSE ScrapeLoop(Tail(anchors), seen, messages)

\* scrape_messages(), given what get_soup(BASE_URL) returned.
scrape_messages(fetched) ==
    IF ~fetched.ok THEN <<>> ELSE ScrapeLoop(fetched.anchors, {}, <<>>)

\* --------------------------------------------------- get_message_details
\* datetime.now(): the current timestamp, told apart from every parsed date.
Now == [now |-> TRUE, y |-> 0, m |-> 0, d |-> 0]
Date(y, m, d) == [now |-> FALSE, y |-> y, m |-> m, d |-> d]

NoDetails == [url |-> <<>>, title |-> <<>>, audio_url |-> <<>>, date |-> Now,
              speaker |-> NoAttr, description |-> [by |-> <<>>, on |-> Now]]

\* What a call ends with: a record, None, or an exception that leaves it.
Returned(d) == [kind |-> "ok", exc |-> "", details |-> d]
Nothing == [kind |-> "none", exc |-> "", details |-> NoDetails]
Raised(e) == [kind |-> "raise", exc |-> e, details |-> NoDetails]

\* title_tag.get_text(strip=True) if title_tag else "Unknown Title"
Title(page) == IF page.h1.has THEN Strip(page.h1.text) ELSE UNKNOWN_TITLE

\* The audio URL step: the audio element's src, else the first nested
\* <source>'s ['src'], else the first nested <a>'s ['href']; subscripting an
\* element that lacks the attribute raises KeyError.
AudioUrl(page) ==
    LET audio == page.audio
        found(u) == [kind |-> "ok", url |-> u]
        absent == [kind |-> "absent", url |-> <<>>]
        keyerror == [kind |-> "KeyError", url |-> <<>>]
    IN  IF ~audio.has THEN absent
        ELSE IF audio.src.has /\ audio.src.val # <<>> THEN found(audio.src.val)
        ELSE IF audio.source.has
             THEN IF audio.source.src.has THEN found(audio.source.src.val)
                  ELSE keyerror
        ELSE IF audio.a.has
             THEN IF audio.a.href.has THEN found(audio.a.href.val)
                  ELSE keyerror
        ELSE absent

\* \d{4}-\d{2}-\d{2} matches at position i
DateAt(s, i) ==
    /\ i + 9 <= Len(s)
    /\ \A k \in {0, 1, 2, 3, 5, 6, 8, 9} : IsDigit(s[i + k])
    /\ s[i + 4] = "-"
    /\ s[i + 7] = "-"

\* re.search: the position of the leftmost match, 0 when there is none.
DateSearch(s) ==
    LET at == {i \in 1..Len(s) : DateAt(s, i)}
    IN  IF at = {} THEN 0 ELSE Min(at)

IsLeap(y) == (y % 4 = 0 /\ y % 100 # 0) \/ y % 400 = 0

DaysIn(y, m) ==
    IF m = 2 THEN (IF IsLeap(y) THEN 29 ELSE 28)
    ELSE IF m \in {4, 6, 9, 11} THEN 30 ELSE 31

Number(s) ==
    IF Len(s) = 4
    THEN 1000 * DigitVal(s[1]) + 100 * DigitVal(s[2]) + 10 * DigitVal(s[3])
         + DigitVal(s[4])
    ELSE 10 * DigitVal(s[1]) + DigitVal(s[2])

\* datetime.strptime(text, "%Y-%m-%d") on a matched text: the date, or
\* ValueError when the digits are no calendar date.
strptime(text) ==
    LET y == Number(SubSeq(text, 1, 4))
        m == Number(SubSeq(text, 6, 7))
        d == Number(SubSeq(text, 9, 10))
    IN  IF y >= 1 /\ m \in 1..12 /\ d \in 1..DaysIn(y, m)
        THEN [ok |-> TRUE, date |-> Date(y, m, d)]
        ELSE [ok |-> FALSE, date |-> Now]

\* The date step on the audio filename.
ExtractDate(audio_filename) ==
    LET i == DateSearch(audio_filename)
    IN  IF i # 0 THEN strptime(SubSeq(audio_filename, i, i + 9))
        ELSE [ok |-> TRUE, date |-> Now]

\* The speaker as the specification words it: the query portion and a
\* trailing ".mp3" removed, then the whitespace around it.
SpeakerAsSpecified(part) ==
    LET q == Split(part, <<"?">>)[1]
        n == IF Len(q) >= 4 /\ IsPrefixAt(q, MP3, Len(q) - 3)
             THEN SubSeq(q, 1, Len(q) - 4) ELSE q
    IN  Strip(n)

\* parts[-1].replace(".mp3", "").strip(), then .split("?")[0]
CleanSpeaker(part) == Split(Strip(Replace(part, MP3, <<>>)), <<"?">>)[1]

\* The speaker step on the audio filename.
ExtractSpeaker(audio_filename) ==
    LET decoded_filename == unquote(audio_filename)
    IN  IF Contains(decoded_filename, SEPARATOR)
        THEN LET parts == Split(decoded_filename, SEPARATOR)
             IN  IF Len(parts) > 1 THEN Attr(CleanSpeaker(Last(parts)))
                 ELSE NoAttr
        ELSE Attr(DEFAULT_SPEAKER)

\* get_message_details(message_url), given what get_soup(message_url)
\* returned.
get_message_details(message_url, page) ==
    IF ~page.ok THEN Nothing
    ELSE LET audio == AudioUrl(page)
         IN  IF audio.kind = "KeyError" THEN Raised("KeyError")
             ELSE IF audio.kind = "absent" THEN Nothing
             ELSE LET audio_filename == Last(Split(audio.url, <<"/">>))
                      parsed == ExtractDate(audio_filename)
                      speaker == ExtractSpeaker(audio_filename)
                  IN  IF ~parsed.ok THEN Raised("ValueError")
                      ELSE Returned(
                             [url |-> message_url,
                              title |-> Title(page),
                              audio_url |-> audio.url,
                              date |-> parsed.date,
                              speaker |-> speaker,
                              description |->
                                [by |-> IF speaker.has THEN speaker.val
                                        ELSE <<"U","n","k","n","o","w","n">>,
                                 on |-> parsed.date]])

\* ---------------------------------------------------------- generate_feed
\* What the try block raises for a message. podgen is not part of the
\* repository: its Media refuses an empty URL and its Person an empty name;
\* whether Media also wants an http(s) URL is left open, so both a Media that
\* takes any non-empty text and one that wants the scheme are covered. A
\* title is a plain attribute of Episode and is not checked (an item needs a
\* title or a summary, and the summary is always set).
EpisodeRaises(msg, strict_media) ==
    \/ msg.audio_url = <<>>
    \/ strict_media /\ ~StartsWith(msg.audio_url, <<"h", "t", "t", "p">>)
    \/ msg.speaker.has /\ msg.speaker.val = <<>>

\* The episode built from a message.
Episode(msg) ==
    [title |-> msg.title,
     media |-> msg.audio_url,
     summary |-> msg.description,
     publication_date |-> msg.date,
     link |-> msg.url,
     authors |-> IF msg.speaker.has THEN <<msg.speaker.val>> ELSE <<>>]

\* The loop over messages: an episode that raises is logged and left out.
RECURSIVE AddEpisodes(_, _, _)
AddEpisodes(messages, strict_media, episodes) ==
    IF messages = <<>> THEN episodes
    ELSE AddEpisodes(Tail(messages), strict_media,
                     IF EpisodeRaises(Head(messages), strict_media)
                     THEN episodes
                     ELSE Append(episodes, Episode(Head(messages))))

\* generate_feed(messages): the episodes of the feed written to podcast.xml.
generate_feed(messages, strict_media) == AddEpisodes(messages, strict_media, <<>>)

\* ------------------------------------------------------------------ main
ProcessedLinks_All(links) == links

\* message_links[:20]
ProcessedLinks(links) ==
    SubSeq(links, 1, IF Len(links) < MaxProcessed THEN Len(links) ELSE MaxProcessed)

Collect_Front(list, details) == <<details>> \o list

\* details_list.append(details)
Collect(list, details) == Append(list, details)

\* ---------------------------------------------------------------- inputs
SeqsUpTo(S, n) == UNION {[1..k -> S] : k \in 0..n}

RECURSIVE Concat(_)
Concat(pieces) ==
    IF pieces = <<>> THEN <<>> ELSE Head(pieces) \o Concat(Tail(pieces))

\* Listing pages.
HrefA == MARKER \o <<"a">>
HrefB == MARKER \o <<"b">>
HrefC == <<".", ".">> \o MARKER \o <<"c">>
HrefAbout == <<"/", "a", "b", "o", "u", "t">>

Anchors == {NoAttr, Attr(HrefA), Attr(Origin \o HrefA), Attr(HrefB),
            Attr(HrefC), Attr(MARKER), Attr(HrefAbout)}

ArchiveHref(k) == MARKER \o <<DigitChars[(k \div 10) + 1], DigitChars[(k % 10) + 1]>>

ArchiveListing(n) == [k \in 1..n |-> Attr(ArchiveHref(k))]

\* get_soup returned None; also the value of soup outside scrape_messages.
NoSoup == [ok |-> FALSE, anchors |-> <<>>]

ListingResponses ==
    {NoSoup}
    \cup {[ok |-> TRUE, anchors |-> a] : a \in SeqsUpTo(Anchors, MaxAnchors)}
    \cup {[ok |-> TRUE, anchors |-> ArchiveListing(n)] :
            n \in (MaxProcessed - 1)..ArchiveLen}

\* Detail pages.
NoH1 == [has |-> FALSE, text |-> <<>>]
H1(t) == [has |-> TRUE, text |-> t]
NoSource == [has |-> FALSE, src |-> NoAttr]
Source(src) == [has |-> TRUE, src |-> src]
NoA == [has |-> FALSE, href |-> NoAttr]
A(href) == [has |-> TRUE, href |-> href]
NoAudio == [has |-> FALSE, src |-> NoAttr, source |-> NoSource, a |-> NoA]
Audio(src, source, a) == [has |-> TRUE, src |-> src, source |-> source, a |-> a]
Page(h1, audio) == [ok |-> TRUE, h1 |-> h1, audio |-> audio]
FetchFailed == [ok |-> FALSE, h1 |-> NoH1, audio |-> NoAudio]

DateOK == <<"2","0","2","5","-","1","1","-","0","9">>
DateBad == <<"2","0","2","5","-","1","3","-","4","5">>
Msg == <<"M", "s", "g">>
SepPct == <<"%","2","0","-","%","2","0">>
SepPlus == <<"+", "-", "+">>
Jane == <<"J", "a", "n", "e">>
Query == <<"?", "v", "=", "1">>
Pct20 == <<"%", "2", "0">>
JaneDoe == <<"J", "a", "n", "e", " ", "D", "o", "e">>

Vocabulary == {DateOK, DateBad, Msg, SepPct, SepPlus, Jane, MP3, Query, Pct20}

\* 2025-11-09+Message+-+Jane+Doe.mp3
PlusExample ==
    DateOK \o <<"+","M","e","s","s","a","g","e","+","-","+","J","a","n","e",
                "+","D","o","e">> \o MP3

\* 2025-11-09%20Message%20-%20Jane%20Doe.mp3
PctExample ==
    DateOK \o Pct20 \o <<"M","e","s","s","a","g","e">> \o SepPct \o Jane
    \o Pct20 \o <<"D", "o", "e">> \o MP3

Filenames ==
    {Concat(ps) : ps \in SeqsUpTo(Vocabulary, MaxPieces)}
    \cup {PlusExample, PctExample}

AudioBase == Origin \o <<"/", "m", "/">>
TitleT == <<"T">>
GoodFile == DateOK \o SepPct \o Jane \o MP3
SrcOnly(url) == Audio(Attr(url), NoSource, NoA)

FilenamePage(f) == Page(H1(TitleT), SrcOnly(AudioBase \o f))

DetailPages ==
    { FetchFailed,
      FilenamePage(GoodFile),
      Page(NoH1, Audio(NoAttr, Source(Attr(<<"/", "m", "/", "x">> \o MP3)), NoA)),
      Page(H1(<<" ">>), SrcOnly(AudioBase \o GoodFile)),
      Page(H1(TitleT), NoAudio),
      Page(H1(TitleT), Audio(NoAttr, NoSource, NoA)),
      Page(H1(TitleT), Audio(NoAttr, Source(NoAttr), NoA)),
      Page(H1(TitleT), Audio(NoAttr, NoSource, A(NoAttr))),
      Page(H1(TitleT), Audio(Attr(<<>>), NoSource, A(Attr(AudioBase \o GoodFile)))),
      FilenamePage(DateBad \o MP3),
      Page(H1(TitleT), Audio(NoAttr, Source(Attr(<<>>)), NoA)),
      FilenamePage(Msg \o SepPct \o MP3) }

SmallUrls == {Origin \o HrefA, Origin \o HrefB, HrefC}

\* What the site serves for a message URL: any detail page for the links of
\* the short listings, one ordinary page for every link of the archive.
Responses(url) ==
    IF url \in SmallUrls THEN DetailPages ELSE {FilenamePage(GoodFile)}

\* ------------------------------------------------------------ the program
Event(op, url, page, ret) == [op |-> op, url |-> url, page |-> page, ret |-> ret]

Init ==
    /\ pc = "start"
    /\ soup = NoSoup
    /\ message_links = <<>>
    /\ idx = 0
    /\ details_list = <<>>
    /\ feed = <<>>
    /\ writes = 0
    /\ notice = FALSE
    /\ error = ""
    /\ log = <<>>
    /\ page_in = FetchFailed
    /\ result = Nothing

\* main, line 152: scrape_messages(), up to its return statement.
Scrape ==
    /\ pc = "start"
    /\ \E fetched \in ListingResponses :
         /\ soup' = fetched
         /\ message_links' = scrape_messages(fetched)
         /\ log' = Append(log, Event("listing", BASE_URL, FetchFailed, "soup"))
    /\ pc' = "scraped"
    /\ UNCHANGED <<idx, details_list, feed, writes, notice, error, page_in, result>>

\* main, lines 153-157: scrape_messages has returned and its soup is gone;
\* the empty details_list and the start of the loop.
EnterLoop ==
    /\ pc = "scraped"
    /\ soup' = NoSoup
    /\ details_list' = <<>>
    /\ idx' = 1
    /\ pc' = "loop"
    /\ UNCHANGED <<message_links, feed, writes, notice, error, log, page_in, result>>

\* main, lines 157-162: one iteration of the loop. An exception leaving
\* get_message_details is caught nowhere and ends main.
Process ==
    /\ pc = "loop"
    /\ idx <= Len(ProcessedLinks(message_links))
    /\ LET url == ProcessedLinks(message_links)[idx].url
       IN  \E page \in Responses(url) :
             LET details == get_message_details(url, page)
             IN  /\ page_in' = page
                 /\ result' = details
                 /\ log' = Append(log, Event("detail", url, page, details.kind))
                 /\ IF details.kind = "raise"
                    THEN /\ pc' = "aborted"
                         /\ error' = details.exc
                         /\ UNCHANGED <<idx, details_list>>
                    ELSE /\ details_list' =
                              IF details.kind = "ok"
                              THEN Collect(details_list, details.details)
                              ELSE details_list
                         /\ idx' = idx + 1
                         /\ UNCHANGED <<pc, error>>
    /\ UNCHANGED <<soup, message_links, feed, writes, notice>>

\* main, lines 164-167: generate_feed and its rss_file, or the notice.
Finish ==
    /\ pc = "loop"
    /\ idx > Len(ProcessedLinks(message_links))
    /\ IF details_list # <<>>
       THEN /\ \E strict_media \in BOOLEAN :
                 feed' = generate_feed(details_list, strict_media)
            /\ writes' = writes + 1
            /\ log' = Append(log, Event("write", <<>>, FetchFailed, "file"))
            /\ UNCHANGED notice
       ELSE /\ notice' = TRUE
            /\ UNCHANGED <<feed, writes, log>>
    /\ pc' = "done"
    /\ UNCHANGED <<soup, message_links, idx, details_list, error, page_in, result>>

Next == Scrape \/ EnterLoop \/ Process \/ Finish

Spec == Init /\ [][Next]_vars

\* get_message_details alone, on every page whose audio filename is made of
\* at most MaxPieces pieces of the vocabulary, and on the detail pages above.
ProbeUrl == Origin \o HrefA

InitDetails ==
    /\ pc = "call"
    /\ page_in \in {FilenamePage(f) : f \in Filenames} \cup DetailPages
    /\ soup = NoSoup
    /\ message_links = <<>>
    /\ idx = 0
    /\ details_list = <<>>
    /\ feed = <<>>
    /\ writes = 0
    /\ notice = FALSE
    /\ error = ""
    /\ log = <<>>
    /\ result = Nothing

Extract ==
    /\ pc = "call"
    /\ result' = get_message_details(ProbeUrl, page_in)
    /\ pc' = "returned"
    /\ UNCHANGED <<soup, message_links, idx, details_list, feed, writes,
                   notice, error, log, page_in>>

NextDetails == Extract

SpecDetails == InitDetails /\ [][NextDetails]_vars

\* ------------------------------------------------------------- properties
DetailEvents == SelectSeq(log, LAMBDA e : e.op = "detail")
CollectedEvents == SelectSeq(log, LAMBDA e : e.op = "detail" /\ e.ret = "ok")
Urls(seq) == [k \in DOMAIN seq |-> seq[k].url]
Started == pc \in {"scraped", "loop", "aborted", "done"}
Scraped == pc = "scraped" /\ soup.ok

\* C1: an error raised while get_message_details handles a link does not
\* abort the run: the link is skipped and the run goes on to its
\* build-and-write-or-notice step.
C1_ErrorSkipsLink ==
    \A k \in DOMAIN log : log[k].ret = "raise" => pc \in {"loop", "done"}

\* C2: when a run of main has ended, podcast.xml was written by it if and
\* only if a record was collected, and with no record the notice was printed
\* and no file written.
C2_WrittenIffCollected ==
    pc \in {"done", "aborted"} =>
        /\ writes = 1 <=> details_list # <<>>
        /\ details_list = <<>> => notice /\ writes = 0

MessagePositions ==
    {k \in DOMAIN soup.anchors :
        /\ soup.anchors[k].has
        /\ Contains(Normalise(soup.anchors[k].val), MARKER)
        /\ Normalise(soup.anchors[k].val) # INDEX_URL}

FirstPosition(url) ==
    Min({k \in MessagePositions : Normalise(soup.anchors[k].val) = url})

NoTwoAlike(links) ==
    \A j, k \in DOMAIN links : j # k => links[j].url # links[k].url

InFirstOccurrenceOrder(links) ==
    /\ \A k \in DOMAIN links :
         \E q \in MessagePositions : Normalise(soup.anchors[q].val) = links[k].url
    /\ \A j, k \in DOMAIN links :
         j < k => FirstPosition(links[j].url) < FirstPosition(links[k].url)

\* C4 (amended): for a fetched listing page where M distinct resolved URLs
\* (an href that starts with '/' resolved against the listing URL) contain
\* '/mediacast/' and are not the bare index URL, scrape_messages returns
\* exactly M entries, no two with the same URL, ordered by the first
\* occurrence of each resolved URL in the page.
C4_DistinctResolvedUrls ==
    Scraped =>
        /\ Len(message_links)
             = Cardinality({Normalise(soup.anchors[k].val) : k \in MessagePositions})
        /\ NoTwoAlike(message_links)
        /\ InFirstOccurrenceOrder(message_links)

\* A listing that names one message page by a relative and by an absolute
\* href, and a second message page after it.
C4_Witness ==
    /\ Scraped
    /\ \E j, k \in MessagePositions :
         /\ j < k
         /\ soup.anchors[j].val # soup.anchors[k].val
         /\ Normalise(soup.anchors[j].val) = Normalise(soup.anchors[k].val)
    /\ Len(message_links) = 2

\* C4 (as stated): with M the number of distinct hrefs that contain
\* '/mediacast/' (the bare index excluded), scrape_messages returns exactly M
\* entries, no two with the same URL, in first-occurrence order.
C4_DistinctHrefs ==
    Scraped =>
        /\ Len(message_links)
             = Cardinality({soup.anchors[k].val : k \in MessagePositions})
        /\ NoTwoAlike(message_links)
        /\ InFirstOccurrenceOrder(message_links)

\* C5: every episode of the feed has a non-empty title, a non-empty audio
\* URL and a publication date, parsed or the current time.
C5_EpisodesComplete ==
    \A k \in DOMAIN feed :
        /\ feed[k].title # <<>>
        /\ feed[k].media # <<>>
        /\ feed[k].publication_date.now \/ feed[k].publication_date.y >= 1

Yields(attr) == attr.has /\ attr.val # <<>>

\* None of the audio element's src, a nested source's src and a nested
\* link's href gives an audio URL.
NoAudioSource(page) ==
    /\ page.ok
    /\ \/ ~page.audio.has
       \/ /\ ~Yields(page.audio.src)
          /\ ~(page.audio.source.has /\ Yields(page.audio.source.src))
          /\ ~(page.audio.a.has /\ Yields(page.audio.a.href))

\* C6: for every detail page from which none of the three sources yields an
\* audio URL, get_message_details returns nothing and the page's link is in
\* no episode of the feed.
C6_NoAudioNoRecord ==
    \A k \in DOMAIN log :
        log[k].op = "detail" /\ NoAudioSource(log[k].page) =>
            /\ log[k].ret = "none"
            /\ \A e \in DOMAIN feed : feed[e].link # log[k].url

\* The audio filename of the page given to get_message_details.
FilenameIn == Last(Split(page_in.audio.src.val, <<"/">>))
HasFilename == page_in.ok /\ page_in.audio.has /\ Yields(page_in.audio.src)

\* C7: the filename 2025-11-09+Message+-+Jane+Doe.mp3 yields the date
\* 2025-11-09 and the speaker "Jane Doe"; a filename <date><encoded ' - '>
\* <speaker>.mp3, the spaces encoded as '+' or as %20, yields that date and
\* that speaker.
C7_DateAndSpeakerFromFilename ==
    pc = "returned" /\ HasFilename =>
        /\ FilenameIn = PlusExample =>
             /\ result.kind = "ok"
             /\ result.details.date = Date(2025, 11, 9)
             /\ result.details.speaker = Attr(JaneDoe)
        /\ FilenameIn \in {DateOK \o sep \o Jane \o MP3 : sep \in {SepPct, SepPlus}} =>
             /\ result.kind = "ok"
             /\ result.details.date = Date(2025, 11, 9)
             /\ result.details.speaker = Attr(Jane)

\* C8: date extraction ends with a date and never with an error: the
\* calendar date of the first date-shaped text of the filename, and the
\* current timestamp in every other case, also when that text is no date.
C8_DateNeverErrors ==
    pc = "returned" /\ HasFilename =>
        LET i == DateSearch(FilenameIn)
            parsed == strptime(SubSeq(FilenameIn, i, i + 9))
        IN  /\ result.kind = "ok"
            /\ result.details.date
                 = IF i # 0 /\ parsed.ok THEN parsed.date ELSE Now

\* C9: when the decoded filename contains ' - ', the speaker is its last
\* ' - '-separated segment without the query portion and the trailing
\* ".mp3", trimmed: no whitespace at either end, no '?', and a ".mp3" that is
\* not the suffix kept.
C9_SpeakerSuffixOnly ==
    pc = "returned" /\ HasFilename /\ result.kind = "ok"
    /\ Contains(unquote(FilenameIn), SEPARATOR) =>
        LET speaker == result.details.speaker.val
        IN  /\ result.details.speaker.has
            /\ speaker = SpeakerAsSpecified(Last(Split(unquote(FilenameIn), SEPARATOR)))
            /\ speaker = Strip(speaker)
            /\ ~Contains(speaker, <<"?">>)

\* C10: the listing page is fetched first and exactly once; then the detail
\* pages one at a time, each processed link once and in listing order, the
\* collected records in that order; the file is written at most once and
\* only after the last detail fetch.
C10_FixedOrder ==
    /\ Started <=> log # <<>>
    /\ \A k \in DOMAIN log : log[k].op = "listing" <=> k = 1
    /\ Len(DetailEvents) <= Len(message_links)
    /\ \A k \in DOMAIN DetailEvents : DetailEvents[k].url = message_links[k].url
    /\ Urls(details_list) = Urls(CollectedEvents)
    /\ writes <= 1
    /\ writes = Cardinality({k \in DOMAIN log : log[k].op = "write"})
    /\ \A k \in DOMAIN log :
         log[k].op = "write" =>
            /\ k = Len(log)
            /\ pc = "done"
            /\ Len(DetailEvents)
                 = (IF Len(message_links) < 20 THEN Len(message_links) ELSE 20)

\* A completed run that skipped its second link, collected two records from
\* two different pages and wrote the file.
C10_Witness ==
    /\ pc = "done"
    /\ writes = 1
    /\ Len(DetailEvents) = 3
    /\ DetailEvents[2].ret = "none"
    /\ Len(details_list) = 2
    /\ details_list[1].title # details_list[2].title
    /\ log[Len(log)].op = "write"

====
